---- MODULE Spec2Model ----
(***************************************************************************)
(* Model of the serverless handlers of lambda-cicd-cdk:                    *)
(*   src/src/data_processor/data_processor.py                              *)
(*   src/src/notification/notification.py                                  *)
(*   src/src/health_check/health_check.py                                  *)
(* One action per lambda_handler and payload shape.  An action runs the    *)
(* whole handler: it threads a "world" (the table, the collaborator call   *)
(* log, the id source and the clock) through the statements of the handler *)
(* in source order.  Collaborator outcomes (state store, object store,     *)
(* publish, client construction) are inputs of the action.  A behaviour is *)
(* one invocation against freshly created tables: no handler reads the     *)
(* table, and every id it writes is generated in the same invocation.      *)
(* SpecPair runs two invocations against the same tables, interleaved at   *)
(* the collaborator calls they issue.                                      *)
(***************************************************************************)
EXTENDS Integers, Sequences, FiniteSets, TLC

VARIABLES processed_data, notifications, nextId, clock, inv, running

vars == <<processed_data, notifications, nextId, clock, inv, running>>

(* ----------------------------- bounds ---------------------------------- *)
MaxLen == 2
MaxRecords == 2
MaxPhoneLen == 3

(* ------------------------- strings and JSON ---------------------------- *)
(* A string is a tuple of one-character strings. *)
Chars == {"a", " "}

Strings == UNION {[1..n -> Chars] : n \in 0..MaxLen}

Whitespace == {" ", "\t", "\n", "\r", "\f"}

RECURSIVE lstrip(_)
lstrip(s) == IF s # <<>> /\ Head(s) \in Whitespace THEN lstrip(Tail(s)) ELSE s

RECURSIVE rstrip(_)
rstrip(s) ==
    IF s # <<>> /\ s[Len(s)] \in Whitespace THEN rstrip(SubSeq(s, 1, Len(s) - 1)) ELSE s

strip(s) == rstrip(lstrip(s))

(* len(s.split()): the number of maximal runs of non-whitespace characters *)
word_count(s) ==
    Cardinality({i \in 1..Len(s) :
        s[i] \notin Whitespace /\ (i = 1 \/ s[i-1] \in Whitespace)})

(* A JSON value: t is its Python type after json.loads, s its content      *)
(* (characters of a str, decimal digits of an int, items of a list, keys   *)
(* of a dict whose values are all 1).                                      *)
JStr(s) == [t |-> "str", s |-> s]
JInt(digits) == [t |-> "int", s |-> digits]
JList(items) == [t |-> "list", s |-> items]
JDict(keys) == [t |-> "dict", s |-> keys]

(* Python truthiness of a JSON value: "", 0, [] and {} are falsy *)
Truthy(v) == IF v.t = "int" THEN v.s # <<"0">> ELSE v.s # <<>>

RECURSIVE join(_, _)
join(sep, parts) ==
    IF parts = <<>> THEN <<>>
    ELSE IF Len(parts) = 1 THEN Head(parts)
    ELSE Head(parts) \o sep \o join(sep, Tail(parts))

(* str(data) *)
str(v) ==
    CASE v.t = "str" -> v.s
      [] v.t = "int" -> v.s
      [] v.t = "list" ->
            <<"[">> \o join(<<",", " ">>, [i \in 1..Len(v.s) |-> <<v.s[i]>>]) \o <<"]">>
      [] v.t = "dict" ->
            <<"{">> \o join(<<",", " ">>,
                [i \in 1..Len(v.s) |-> <<"'", v.s[i], "'", ":", " ", "1">>]) \o <<"}">>

(* ------------------------ shared layer (utils, db) --------------------- *)
DefaultHeaders == {"Content-Type", "Access-Control-Allow-Origin"}

create_response3(status_code, body, headers) ==
    [statusCode |-> status_code, headers |-> DefaultHeaders \cup headers, body |-> body]

create_response(status_code, body) == create_response3(status_code, body, {})

NoBody == [null |-> TRUE]

EmptyMap == [k \in {} |-> TRUE]

(* parse_json_body(event): the parsed body, or an empty mapping when the   *)
(* event carries no body                                                   *)
parse_json_body(event) ==
    IF "body" \in DOMAIN event /\ event.body # NoBody THEN event.body ELSE EmptyMap

(* mapping.get(key, default) *)
Get(mapping, key, default) == IF key \in DOMAIN mapping THEN mapping[key] ELSE default

(* utils.log_event(event, context), called before the try of              *)
(* data_processor.lambda_handler and notification.lambda_handler: it logs  *)
(* the payload and returns                                                 *)
log_event_raises(event) == FALSE

(* The world a handler runs in.  tbl: the handler's table, id -> record.   *)
(* calls: the collaborator calls issued so far, in order, with the calls   *)
(* of the send functions.                                                  *)
World(tbl, id, clk) == [tbl |-> tbl, calls |-> <<>>, nextId |-> id, clock |-> clk]

(* str(uuid.uuid4()): a fresh id *)
uuid4(w) == w.nextId

after_uuid4(w) == [w EXCEPT !.nextId = @ + 1]

(* get_current_timestamp(): the current reading of the clock *)
get_current_timestamp(w) == w.clock

after_timestamp(w) == [w EXCEPT !.clock = @ + 1]

Call(op, id, arg, ok) == [op |-> op, id |-> id, arg |-> arg, ok |-> ok]

(* DynamoDBManager.put_item(item): unconditional insert under item.id; a   *)
(* faulting call raises and writes nothing                                 *)
put_item(w, item, ok) ==
    [w EXCEPT !.calls = Append(@, Call("put", item.id, item, ok)),
              !.tbl = IF ok THEN (item.id :> item) @@ @ ELSE @]

(* the record after patching it with the updates *)
Patch(rec, updates) ==
    [k \in DOMAIN rec \cup DOMAIN updates |->
        IF k \in DOMAIN updates THEN updates[k] ELSE rec[k]]

(* DynamoDBManager.update_item(key, updates): unconditional patch by key;  *)
(* as in the key-value service, patching an absent key creates the record  *)
update_item(w, id, updates, ok) ==
    LET old == IF id \in DOMAIN w.tbl THEN w.tbl[id] ELSE [id |-> id]
    IN  [w EXCEPT !.calls = Append(@, Call("update", id, updates, ok)),
                  !.tbl = IF ok THEN (id :> Patch(old, updates)) @@ @ ELSE @]

(* results of a function body: a returned response or a raised exception *)
Return(w, resp) == [w |-> w, raised |-> FALSE, resp |-> resp, err |-> "", route |-> ""]

Raise(w, err) ==
    [w |-> w, raised |-> TRUE, resp |-> create_response(0, EmptyMap), err |-> err, route |-> ""]

(* the branch of lambda_handler a result came from *)
Routed(route, r) == [r EXCEPT !.route = route]

DbError == "Database error"

NotFound == "An error occurred (404) when calling the HeadObject operation: Not Found"

(* message texts of the exceptions the collaborators raise; a handler is   *)
(* told the text of the faults of its invocation in env.text (o.text for   *)
(* the calls made for one record)                                          *)
FaultTexts == {DbError, NotFound}

(* ------------------------- data_processor.py --------------------------- *)
VALID_DATA_TYPES == <<"text", "json", "csv", "xml", "binary">>

Range(seq) == {seq[i] : i \in 1..Len(seq)}

process_data(data, data_type, w) ==
    CASE data.t = "str" ->
            [original_length |-> Len(data.s), word_count |-> word_count(data.s),
             processed |-> TRUE, timestamp |-> get_current_timestamp(w), type |-> data_type]
      [] data.t = "dict" ->
            [key_count |-> Len(data.s),
             processed |-> TRUE, timestamp |-> get_current_timestamp(w), type |-> data_type]
      [] data.t = "list" ->
            [item_count |-> Len(data.s),
             processed |-> TRUE, timestamp |-> get_current_timestamp(w), type |-> data_type]
      [] OTHER ->
            [data_type |-> data.t,
             processed |-> TRUE, timestamp |-> get_current_timestamp(w), type |-> data_type]

(* mutant of dp_data_size: the size of the trimmed input *)
dp_data_size_trimmed(data) == Len(strip(str(data)))

(* line 149: data_size = len(str(data)) *)
dp_data_size(data) == Len(str(data))

(* mutant of dp_job: the record is stored under a fixed key *)
dp_job_fixed_id(processed_id, current_timestamp, data, data_type, body) ==
    [id |-> 1, type |-> "api_processing", status |-> "queued",
     created_at |-> current_timestamp, data |-> data, data_type |-> data_type,
     metadata |-> Get(body, "metadata", EmptyMap)]

(* mutant of dp_job: the record starts in status processing *)
dp_job_processing(processed_id, current_timestamp, data, data_type, body) ==
    [id |-> processed_id, type |-> "api_processing", status |-> "processing",
     created_at |-> current_timestamp, data |-> data, data_type |-> data_type,
     metadata |-> Get(body, "metadata", EmptyMap)]

(* lines 152-160: the job record *)
dp_job(processed_id, current_timestamp, data, data_type, body) ==
    [id |-> processed_id, type |-> "api_processing", status |-> "queued",
     created_at |-> current_timestamp, data |-> data, data_type |-> data_type,
     metadata |-> Get(body, "metadata", EmptyMap)]

(* mutant of dp_updates: the update marks the record as in progress *)
dp_updates_processing(current_timestamp, processed_result) ==
    [status |-> "processing", completed_at |-> current_timestamp, result |-> processed_result]

(* mutant of dp_updates: the update rewrites created_at as well *)
dp_updates_touch_created(current_timestamp, processed_result) ==
    [status |-> "completed", completed_at |-> current_timestamp, result |-> processed_result,
     created_at |-> current_timestamp]

(* lines 168-172: the updates recording the result *)
dp_updates(current_timestamp, processed_result) ==
    [status |-> "completed", completed_at |-> current_timestamp, result |-> processed_result]

(* lines 144-188: the part of handle_api_request after validation *)
dp_process(body, data, data_type, env, w0) ==
    LET processed_id == uuid4(w0)
        w1 == after_uuid4(w0)
        current_timestamp == get_current_timestamp(w1)
        w2 == after_timestamp(w1)
        data_size == dp_data_size(data)
        job == dp_job(processed_id, current_timestamp, data, data_type, body)
        w3 == put_item(w2, job, env.fault # "put")
        processed_result == process_data(data, data_type, w3)
        w4 == after_timestamp(w3)
        updates == dp_updates(current_timestamp, processed_result)
        w5 == update_item(w4, processed_id, updates, env.fault # "update")
        processed == [id |-> processed_id, type |-> data_type, status |-> "processed",
                      processed_at |-> current_timestamp, size |-> data_size]
    IN  IF env.fault = "put" THEN Raise(w3, env.text)
        ELSE IF env.fault = "update" THEN Raise(w5, env.text)
        ELSE Return(w5, create_response(200,
                [message |-> "Data processed successfully", processed_data |-> processed]))

(* mutant of dp_data_empty: whitespace-only strings are accepted *)
dp_data_empty_untrimmed(data) == ~Truthy(data)

(* line 137: not data or (isinstance(data, str) and data.strip() == '') *)
dp_data_empty(data) == ~Truthy(data) \/ (data.t = "str" /\ strip(data.s) = <<>>)

(* mutant of dp_type_valid: every type is accepted *)
dp_type_valid_any(data_type) == TRUE

(* line 141: data_type in VALID_DATA_TYPES *)
dp_type_valid(data_type) == data_type \in Range(VALID_DATA_TYPES)

(* the 400 of line 142: the message ends with ", ".join(VALID_DATA_TYPES) *)
dp_invalid_type ==
    create_response(400,
        [error |-> "Invalid data type. Must be one of", valid |-> VALID_DATA_TYPES])

dp_handle_api_request_body(event, env, w) ==
    LET body == parse_json_body(event)
    IN  IF DOMAIN body = {} \/ "data" \notin DOMAIN body
        THEN Return(w, create_response(400,
                [error |-> "Request body must contain \"data\" field"]))
        ELSE LET data == body.data
                 data_type == IF "type" \in DOMAIN body THEN body.type ELSE "text"
             IN  IF dp_data_empty(data)
                 THEN Return(w, create_response(400, [error |-> "Data cannot be empty"]))
                 ELSE IF ~dp_type_valid(data_type)
                 THEN Return(w, dp_invalid_type)
                 ELSE dp_process(body, data, data_type, env, w)

(* mutant of dp_handle_api_request: the record is inserted before validation *)
dp_handle_api_request_put_first(event, env, w) ==
    LET early == put_item(after_uuid4(w),
                    [id |-> uuid4(w), type |-> "api_processing", status |-> "queued"], TRUE)
        r == dp_handle_api_request_body(event, env, early)
    IN  IF r.raised
        THEN Return(r.w, create_response(500, [error |-> "Failed to process data"]))
        ELSE r

(* mutant of dp_handle_api_request: the 500 carries str(e) *)
dp_handle_api_request_leaky(event, env, w) ==
    LET r == dp_handle_api_request_body(event, env, w)
    IN  IF r.raised
        THEN Return(r.w, create_response(500, [error |-> r.err]))
        ELSE r

(* handle_api_request: the body above inside try/except Exception *)
dp_handle_api_request(event, env, w) ==
    LET r == dp_handle_api_request_body(event, env, w)
    IN  IF r.raised
        THEN Return(r.w, create_response(500, [error |-> "Failed to process data"]))
        ELSE r

(* s3_client.head_object(Bucket, Key): the metadata of the object, or a fault *)
HeadResponse == [ContentLength |-> 6, ContentType |-> "text/plain"]

(* mutant of head_object: a failed lookup is tried a second time *)
head_object_retried(w, job_id, bucket_name, object_key, ok) ==
    LET c == Call("head_object", job_id, [Bucket |-> bucket_name, Key |-> object_key], ok)
    IN  [w EXCEPT !.calls = IF ok THEN Append(@, c) ELSE Append(Append(@, c), c)]

head_object(w, job_id, bucket_name, object_key, ok) ==
    [w EXCEPT !.calls = Append(@,
        Call("head_object", job_id, [Bucket |-> bucket_name, Key |-> object_key], ok))]

(* lines 66-69: the reads of the record's fields, outside the inner try *)
S3WellFormed(record) ==
    /\ "s3" \in DOMAIN record
    /\ "eventName" \in DOMAIN record

(* mutant of s3_record_failed: the failure is recorded on the first       *)
(* record of the table                                                     *)
s3_record_failed_first_id(w, job_id, record_error, o) ==
    LET w1 == update_item(after_timestamp(w), 1,
                [status |-> "failed", error |-> record_error,
                 failed_at |-> get_current_timestamp(w)], ~o.fail_update)
    IN  IF o.fail_update THEN Raise(w1, o.text) ELSE Return(w1, create_response(0, EmptyMap))

(* mutant of s3_record_failed: the failure is logged but not recorded *)
s3_record_failed_unrecorded(w, job_id, record_error, o) ==
    Return(w, create_response(0, EmptyMap))

(* lines 104-111: the handler of the inner try, reached with job_id bound *)
s3_record_failed(w, job_id, record_error, o) ==
    LET w1 == update_item(after_timestamp(w), job_id,
                [status |-> "failed", error |-> record_error,
                 failed_at |-> get_current_timestamp(w)], ~o.fail_update)
    IN  IF o.fail_update THEN Raise(w1, o.text) ELSE Return(w1, create_response(0, EmptyMap))

(* lines 73-111: the inner try/except for one record; o is the outcome of  *)
(* the collaborator calls issued for it.  processed tells whether line 102 *)
(* was reached.                                                            *)
s3_record(w0, record, o) ==
    LET bucket_name == record.s3.bucket.name
        object_key == record.s3.object.key
        job_id == uuid4(w0)
        w1 == after_uuid4(w0)
        job == [id |-> job_id, type |-> "s3_processing", bucket |-> bucket_name,
                key |-> object_key, status |-> "processing",
                created_at |-> get_current_timestamp(w1), event_name |-> record.eventName]
        w2 == put_item(after_timestamp(w1), job, o.fault # "put")
        w3 == head_object(w2, job_id, bucket_name, object_key, o.fault # "head")
        updates == [status |-> "completed", completed_at |-> get_current_timestamp(w3),
                    file_size |-> HeadResponse.ContentLength,
                    content_type |-> HeadResponse.ContentType]
        w4 == update_item(after_timestamp(w3), job_id, updates, o.fault # "update")
    IN  IF o.fault = "put" THEN [r |-> s3_record_failed(w2, job_id, o.text, o), processed |-> 0]
        ELSE IF o.fault = "head"
        THEN [r |-> s3_record_failed(w3, job_id, o.text, o), processed |-> 0]
        ELSE IF o.fault = "update"
        THEN [r |-> s3_record_failed(w4, job_id, o.text, o), processed |-> 0]
        ELSE [r |-> Return(w4, create_response(0, EmptyMap)), processed |-> 1]

(* lines 62-111: the loop over event['Records'], from record i on *)
RECURSIVE s3_loop(_, _, _, _, _)
s3_loop(records, outcomes, i, w, processed_records) ==
    IF i > Len(records) THEN [w |-> w, raised |-> FALSE, processed_records |-> processed_records]
    ELSE IF ~S3WellFormed(records[i])
    THEN [w |-> w, raised |-> TRUE, processed_records |-> processed_records]
    ELSE LET s == s3_record(w, records[i], outcomes[i])
         IN  IF s.r.raised
             THEN [w |-> s.r.w, raised |-> TRUE, processed_records |-> processed_records]
             ELSE s3_loop(records, outcomes, i + 1, s.r.w, processed_records + s.processed)

(* handle_s3_event *)
handle_s3_event(event, env, w) ==
    LET l == s3_loop(event.Records, env.records, 1, w, 0)
    IN  IF l.raised
        THEN Return(l.w, create_response(500, [error |-> "Failed to process S3 event"]))
        ELSE Return(l.w, create_response(200,
                [message |-> "S3 event processed successfully",
                 processed_records |-> l.processed_records]))

NoneEvent == [NoneType |-> TRUE]

(* mutant of dp_lambda_handler: the state store is probed before the       *)
(* payload is classified, and a failing store answers 500                  *)
dp_lambda_handler_probe(event, env, w) ==
    IF env.init = "fault" \/ event = NoneEvent
       \/ (env.records # <<>> /\ env.records[1].fault = "put")
    THEN Routed("fault", Return(w, create_response(500, [error |-> "Internal server error"])))
    ELSE IF "Records" \in DOMAIN event /\ event.Records # <<>>
    THEN Routed("batch", handle_s3_event(event, env, w))
    ELSE IF "httpMethod" \in DOMAIN event
    THEN IF Get(event, "resource", "") = "/process" /\ event.httpMethod = "POST"
         THEN Routed("api", dp_handle_api_request(event, env, w))
         ELSE Routed("not_found", Return(w, create_response(404, [error |-> "Resource not found"])))
    ELSE Routed("unknown", Return(w, create_response(400, [error |-> "Unknown event type"])))

(* mutant of dp_lambda_handler: httpMethod is tested before Records *)
dp_lambda_handler_method_first(event, env, w) ==
    IF log_event_raises(event) THEN Routed("fault", Raise(w, "log_event"))
    ELSE IF env.init = "fault" \/ event = NoneEvent
    THEN Routed("fault", Return(w, create_response(500, [error |-> "Internal server error"])))
    ELSE IF "httpMethod" \in DOMAIN event
    THEN IF Get(event, "resource", "") = "/process" /\ event.httpMethod = "POST"
         THEN Routed("api", dp_handle_api_request(event, env, w))
         ELSE Routed("not_found", Return(w, create_response(404, [error |-> "Resource not found"])))
    ELSE IF "Records" \in DOMAIN event /\ event.Records # <<>>
    THEN Routed("batch", handle_s3_event(event, env, w))
    ELSE Routed("unknown", Return(w, create_response(400, [error |-> "Unknown event type"])))

(* data_processor.lambda_handler, lines 32-56 *)
dp_lambda_handler(event, env, w) ==
    IF log_event_raises(event) THEN Routed("fault", Raise(w, "log_event"))
    ELSE IF env.init = "fault" \/ event = NoneEvent
    THEN Routed("fault", Return(w, create_response(500, [error |-> "Internal server error"])))
    ELSE IF "Records" \in DOMAIN event /\ event.Records # <<>>
    THEN Routed("batch", handle_s3_event(event, env, w))
    ELSE IF "httpMethod" \in DOMAIN event
    THEN IF Get(event, "resource", "") = "/process" /\ event.httpMethod = "POST"
         THEN Routed("api", dp_handle_api_request(event, env, w))
         ELSE Routed("not_found", Return(w, create_response(404, [error |-> "Resource not found"])))
    ELSE Routed("unknown", Return(w, create_response(400, [error |-> "Unknown event type"])))

(* --------------------------- notification.py --------------------------- *)
Lower == {"a", "b", "c", "d", "e", "f", "g", "h", "i", "j", "k", "l", "m",
          "n", "o", "p", "q", "r", "s", "t", "u", "v", "w", "x", "y", "z"}

Upper == {"A", "B", "C", "D", "E", "F", "G", "H", "I", "J", "K", "L", "M",
          "N", "O", "P", "Q", "R", "S", "T", "U", "V", "W", "X", "Y", "Z"}

Digits == {"0", "1", "2", "3", "4", "5", "6", "7", "8", "9"}

Letters == Lower \cup Upper

(* the text a pattern ending in $ must match in full: re's $ matches at    *)
(* the end of the string and just before a newline that ends the string    *)
BeforeDollar(s) ==
    IF s # <<>> /\ s[Len(s)] = "\n" THEN SubSeq(s, 1, Len(s) - 1) ELSE s

(* ^[a-zA-Z0-9._%+-]+@[a-zA-Z0-9.-]+\.[a-zA-Z]{2,}$ *)
is_valid_email(email) ==
    LET e == BeforeDollar(email)
    IN  \E i, j \in 1..Len(e) :
            /\ i > 1 /\ e[i] = "@"
            /\ \A k \in 1..(i-1) : e[k] \in Letters \cup Digits \cup {".", "_", "%", "+", "-"}
            /\ j > i + 1 /\ e[j] = "."
            /\ \A k \in (i+1)..(j-1) : e[k] \in Letters \cup Digits \cup {".", "-"}
            /\ Len(e) - j >= 2
            /\ \A k \in (j+1)..Len(e) : e[k] \in Letters

(* ^\+?[1-9]\d{1,14}$ *)
is_valid_phone(phone) ==
    LET p == BeforeDollar(phone)
        digits == IF p # <<>> /\ Head(p) = "+" THEN Tail(p) ELSE p
    IN  /\ digits # <<>>
        /\ Head(digits) \in Digits \ {"0"}
        /\ Len(digits) - 1 \in 1..14
        /\ \A k \in 2..Len(digits) : digits[k] \in Digits

Email == <<"e", "m", "a", "i", "l">>

Sms == <<"s", "m", "s">>

VALID_NOTIFICATION_TYPES == <<Email, Sms>>

PublishError == "SNS publish failed"

(* sns_client.publish(...): attrs are the MessageAttributes and the Subject *)
publish(w, attrs, ok) == [w EXCEPT !.calls = Append(@, Call("publish", 0, attrs, ok))]

(* the result dictionaries of the send functions *)
SendOk == [success |-> TRUE, error |-> ""]

SendFailed(error) == [success |-> FALSE, error |-> error]

(* send_email_notification(recipient, subject, message, sns_client) *)
send_email_notification(w, recipient, subject, message, sns_client, ok) ==
    LET w1 == publish(w, [notification_type |-> Email, recipient |-> recipient,
                          Subject |-> IF subject # <<>> THEN subject
                                      ELSE <<"N", "o", "t", "i", "f", "i", "c", "a", "t", "i", "o", "n">>,
                          Message |-> message], ok)
    IN  [w |-> w1, raised |-> FALSE,
         result |-> IF ok THEN SendOk ELSE SendFailed(PublishError)]

(* send_sms_notification(phone_number, message, sns_client) *)
send_sms_notification(w, phone_number, message, sns_client, ok) ==
    LET w1 == publish(w, [notification_type |-> Sms, recipient |-> phone_number,
                          Message |-> message], ok)
    IN  [w |-> w1, raised |-> FALSE,
         result |-> IF ok THEN SendOk ELSE SendFailed(PublishError)]

(* the positional parameters the two send functions declare (lines 218, 252) *)
send_email_params == <<"recipient", "subject", "message", "sns_client">>

send_sms_params == <<"phone_number", "message", "sns_client">>

MissingArgument == "missing 1 required positional argument: 'sns_client'"

(* A Python call: too few positional arguments raise TypeError before the  *)
(* body of the function runs.                                              *)
call_send_email(w, args, ok) ==
    IF Len(args) # Len(send_email_params)
    THEN [w |-> w, raised |-> TRUE, result |-> SendFailed(MissingArgument)]
    ELSE send_email_notification(w, args[1], args[2], args[3], args[4], ok)

call_send_sms(w, args, ok) ==
    IF Len(args) # Len(send_sms_params)
    THEN [w |-> w, raised |-> TRUE, result |-> SendFailed(MissingArgument)]
    ELSE send_sms_notification(w, args[1], args[2], args[3], ok)

(* lines 166-169: control reaches the call of a send function; the call   *)
(* is entered in the log so that later calls are ordered after it          *)
send_attempt(w, notification_type) ==
    [w EXCEPT !.calls =
        Append(@, Call("send", 0, [notification_type |-> notification_type], TRUE))]

(* mutant of nt_send: a send that raised is recorded as sent *)
nt_send_raised_is_sent(w, notification_type, recipient, subject, message, ok) ==
    LET w1 == send_attempt(w, notification_type)
        c == IF notification_type = Email
             THEN call_send_email(w1, <<recipient, subject, message>>, ok)
             ELSE call_send_sms(w1, <<recipient, message>>, ok)
    IN  IF c.raised
        THEN [w |-> c.w, status |-> "sent", send_result |-> SendOk]
        ELSE [w |-> c.w, status |-> IF c.result.success THEN "sent" ELSE "failed",
              send_result |-> c.result]

(* lines 164-175: the send attempt.  The call sites pass (recipient,       *)
(* subject, message) and (recipient, message).                            *)
nt_send(w, notification_type, recipient, subject, message, ok) ==
    LET w1 == send_attempt(w, notification_type)
        c == IF notification_type = Email
             THEN call_send_email(w1, <<recipient, subject, message>>, ok)
             ELSE call_send_sms(w1, <<recipient, message>>, ok)
    IN  IF c.raised
        THEN [w |-> c.w, status |-> "failed", send_result |-> SendFailed(c.result.error)]
        ELSE [w |-> c.w, status |-> IF c.result.success THEN "sent" ELSE "failed",
              send_result |-> c.result]

(* mutant of nt_persist: the record is stored, then its status updated *)
nt_persist_then_update(w, notification_record, ok) ==
    update_item(put_item(w, notification_record, ok), notification_record.id,
                [status |-> notification_record.status], ok)

(* line 195: db_manager.put_item(notification_record) *)
nt_persist(w, notification_record, ok) == put_item(w, notification_record, ok)

(* lines 160-211: the part of handle_api_request after validation *)
nt_notify(recipient, message, notification_type, subject, env, w0) ==
    LET notification_id == uuid4(w0)
        w1 == after_uuid4(w0)
        current_timestamp == get_current_timestamp(w1)
        s == nt_send(after_timestamp(w1), notification_type, recipient, subject, message,
                     env.publish = "ok")
        base == [id |-> notification_id, type |-> notification_type \o <<"_notification">>,
                 source |-> "api", recipient |-> recipient, message |-> message,
                 notification_type |-> notification_type, status |-> s.status,
                 created_at |-> current_timestamp]
        with_subject == IF subject # <<>> THEN ("subject" :> subject) @@ base ELSE base
        notification_record ==
            IF ~s.send_result.success
            THEN ("error" :> s.send_result.error) @@ with_subject ELSE with_subject
        w2 == nt_persist(s.w, notification_record, env.fault # "put")
        base_response == [id |-> notification_id, recipient |-> recipient,
                          type |-> notification_type, status |-> s.status]
        notification_response ==
            IF subject # <<>> THEN ("subject" :> subject) @@ base_response ELSE base_response
    IN  IF env.fault = "put" THEN Raise(w2, env.text)
        ELSE Return(w2, create_response(200,
                [message |-> "Notification sent successfully",
                 notification |-> notification_response]))

(* mutant of nt_validation_error: the type is checked before the message *)
nt_validation_error_type_first(recipient, message, notification_type) ==
    IF recipient = <<>> THEN [error |-> "Recipient is required"]
    ELSE IF notification_type = <<>> THEN [error |-> "Type is required"]
    ELSE IF notification_type \notin Range(VALID_NOTIFICATION_TYPES)
    THEN [error |-> "Invalid type. Must be one of", valid |-> VALID_NOTIFICATION_TYPES]
    ELSE IF message = <<>> THEN [error |-> "Message is required"]
    ELSE IF notification_type = Email /\ ~is_valid_email(recipient)
    THEN [error |-> "Invalid email format"]
    ELSE IF notification_type = Sms /\ ~is_valid_phone(recipient)
    THEN [error |-> "Invalid phone number format"]
    ELSE EmptyMap

(* lines 140-157: the checks on the trimmed fields, in source order; the   *)
(* body of the 400 the first failing check returns, or the empty mapping   *)
(* when all pass.  The message of line 150 ends with                       *)
(* ", ".join(VALID_NOTIFICATION_TYPES).                                    *)
nt_validation_error(recipient, message, notification_type) ==
    IF recipient = <<>> THEN [error |-> "Recipient is required"]
    ELSE IF message = <<>> THEN [error |-> "Message is required"]
    ELSE IF notification_type = <<>> THEN [error |-> "Type is required"]
    ELSE IF notification_type \notin Range(VALID_NOTIFICATION_TYPES)
    THEN [error |-> "Invalid type. Must be one of", valid |-> VALID_NOTIFICATION_TYPES]
    ELSE IF notification_type = Email /\ ~is_valid_email(recipient)
    THEN [error |-> "Invalid email format"]
    ELSE IF notification_type = Sms /\ ~is_valid_phone(recipient)
    THEN [error |-> "Invalid phone number format"]
    ELSE EmptyMap

nt_handle_api_request_body(event, env, w) ==
    LET body == parse_json_body(event)
    IN  IF DOMAIN body = {}
        THEN Return(w, create_response(400, [error |-> "Request body is required"]))
        ELSE LET recipient == strip(Get(body, "recipient", <<>>))
                 message == strip(Get(body, "message", <<>>))
                 notification_type == strip(Get(body, "type", <<>>))
                 subject == strip(Get(body, "subject", <<>>))
                 invalid == nt_validation_error(recipient, message, notification_type)
             IN  IF invalid # EmptyMap
                 THEN Return(w, create_response(400, invalid))
                 ELSE nt_notify(recipient, message, notification_type, subject, env, w)

(* mutant of nt_handle_api_request: a fault is logged and the request      *)
(* answered as accepted                                                    *)
nt_handle_api_request_swallow(event, env, w) ==
    LET r == nt_handle_api_request_body(event, env, w)
    IN  IF r.raised
        THEN Return(r.w, create_response(200, [message |-> "Notification sent successfully"]))
        ELSE r

(* handle_api_request: the body above inside try/except Exception *)
nt_handle_api_request(event, env, w) ==
    LET r == nt_handle_api_request_body(event, env, w)
    IN  IF r.raised
        THEN Return(r.w, create_response(500, [error |-> "Failed to send notification"]))
        ELSE r

(* json.loads(message_content) followed by the two .get calls (lines       *)
(* 77-84).  A message is carried with its parse: is_json tells whether     *)
(* json.loads accepts it, parsed is the mapping it yields.                 *)
sns_recipient(message_content) ==
    IF message_content.is_json
    THEN Get(message_content.parsed, "recipient", <<"unknown">>) ELSE <<"unknown">>

sns_notification_type(message_content) ==
    IF message_content.is_json
    THEN Get(message_content.parsed, "type", <<"sns">>) ELSE <<"sns">>

(* lines 68-72: the reads of the message fields, inside the inner try *)
SnsWellFormed(record) ==
    /\ "Sns" \in DOMAIN record
    /\ {"Message", "TopicArn", "MessageId"} \subseteq DOMAIN record.Sns

(* mutant of sns_notification: the record is stored as processed at once *)
sns_notification_processed(notification_id, sns, created_at) ==
    [id |-> notification_id, type |-> sns_notification_type(sns.Message),
     source |-> "sns", topic_arn |-> sns.TopicArn,
     recipient |-> sns_recipient(sns.Message),
     subject |-> Get(sns, "Subject", <<"No Subject">>),
     message |-> sns.Message, status |-> "processed",
     created_at |-> created_at, sns_message_id |-> sns.MessageId]

(* lines 88-99: the record of a received message *)
sns_notification(notification_id, sns, created_at) ==
    [id |-> notification_id, type |-> sns_notification_type(sns.Message),
     source |-> "sns", topic_arn |-> sns.TopicArn,
     recipient |-> sns_recipient(sns.Message),
     subject |-> Get(sns, "Subject", <<"No Subject">>),
     message |-> sns.Message, status |-> "received",
     created_at |-> created_at, sns_message_id |-> sns.MessageId]

(* lines 67-113: the inner try/except for one message *)
sns_record(w0, record, o) ==
    IF ~SnsWellFormed(record) THEN [w |-> w0, processed |-> 0]
    ELSE
    LET sns == record.Sns
        notification_id == uuid4(w0)
        w1 == after_uuid4(w0)
        notification == sns_notification(notification_id, sns, get_current_timestamp(w1))
        w2 == put_item(after_timestamp(w1), notification, o.fault # "put")
        w3 == update_item(after_timestamp(w2), notification_id,
                [status |-> "processed", processed_at |-> get_current_timestamp(w2)],
                o.fault # "update")
    IN  IF o.fault = "put" THEN [w |-> w2, processed |-> 0]
        ELSE IF o.fault = "update" THEN [w |-> w3, processed |-> 0]
        ELSE [w |-> w3, processed |-> 1]

(* lines 64-113: the loop over event['Records'], from record i on *)
RECURSIVE sns_loop(_, _, _, _, _)
sns_loop(records, outcomes, i, w, processed_records) ==
    IF i > Len(records) THEN [w |-> w, processed_records |-> processed_records]
    ELSE LET s == sns_record(w, records[i], outcomes[i])
         IN  sns_loop(records, outcomes, i + 1, s.w, processed_records + s.processed)

(* handle_sns_event *)
handle_sns_event(event, env, w) ==
    LET l == sns_loop(event.Records, env.records, 1, w, 0)
    IN  Return(l.w, create_response(200,
            [message |-> "SNS event processed successfully",
             processed_records |-> l.processed_records]))

(* notification.lambda_handler, lines 33-58 *)
nt_lambda_handler(event, env, w) ==
    IF log_event_raises(event) THEN Routed("fault", Raise(w, "log_event"))
    ELSE IF env.init = "fault" \/ event = NoneEvent
    THEN Routed("fault", Return(w, create_response(500, [error |-> "Internal server error"])))
    ELSE IF "Records" \in DOMAIN event /\ event.Records # <<>>
    THEN Routed("batch", handle_sns_event(event, env, w))
    ELSE IF "httpMethod" \in DOMAIN event
    THEN IF Get(event, "resource", "") = "/notify" /\ event.httpMethod = "POST"
         THEN Routed("api", nt_handle_api_request(event, env, w))
         ELSE Routed("not_found", Return(w, create_response(404, [error |-> "Resource not found"])))
    ELSE Routed("unknown", Return(w, create_response(400, [error |-> "Unknown event type"])))

(* --------------------------- health_check.py --------------------------- *)
TIMEOUT_MS == 300000

DEFAULT_REMAINING_MS == 30000

DEFAULT_MEMORY_MB == 256

(* handle_health_check.  The context is a mapping of the attributes it     *)
(* has; env.attributes tells whether reading them raises.  uptime is kept  *)
(* in milliseconds: uptime_seconds is uptime_ms / 1000.                    *)
handle_health_check(event, context, env, w) ==
    LET remaining == Get(context, "get_remaining_time_in_millis", DEFAULT_REMAINING_MS)
        uptime_ms == TIMEOUT_MS - remaining
        health_info == [status |-> "healthy", timestamp |-> get_current_timestamp(w),
                        version |-> "1.0.0", service |-> "health-check",
                        uptime_ms |-> uptime_ms]
        query_params == Get(event, "queryStringParameters", EmptyMap)
        wants_details == DOMAIN query_params # {} /\ Get(query_params, "details", "") = "true"
        details == [memory |-> [limit_mb |-> Get(context, "memory_limit_in_mb", DEFAULT_MEMORY_MB),
                                unit |-> "MB"],
                    runtime |-> [function_name |-> Get(context, "function_name", "unknown"),
                                 function_version |-> Get(context, "function_version", "unknown")]]
        headers == {"Access-Control-Allow-Headers", "Access-Control-Allow-Methods"}
        w1 == after_timestamp(w)
    IN  IF wants_details /\ env.attributes = "raise"
        THEN Raise(w1, env.text)
        ELSE IF wants_details
        THEN Return(w1, create_response3(200, ("details" :> details) @@ health_info, headers))
        ELSE Return(w1, create_response3(200, health_info, headers))

(* mutant of hc_route: the method is not looked at *)
hc_route_any_method(resource, http_method) == resource = "/health"

(* line 22: resource == '/health' and http_method == 'GET' *)
hc_route(resource, http_method) == resource = "/health" /\ http_method = "GET"

(* mutant of hc_lambda_handler: no try/except around the dispatch *)
hc_lambda_handler_no_try(event, context, env, w) ==
    IF event = NoneEvent
    THEN Routed("fault", Raise(w, "'NoneType' object has no attribute 'get'"))
    ELSE IF hc_route(Get(event, "resource", ""), Get(event, "httpMethod", ""))
    THEN Routed("api", handle_health_check(event, context, env, w))
    ELSE Routed("not_found", Return(w, create_response(404, [error |-> "Resource not found"])))

(* health_check.lambda_handler, lines 17-29 *)
hc_lambda_handler(event, context, env, w) ==
    IF event = NoneEvent
    THEN Routed("fault", Return(w, create_response(500, [error |-> "Internal server error"])))
    ELSE IF hc_route(Get(event, "resource", ""), Get(event, "httpMethod", ""))
    THEN LET r == handle_health_check(event, context, env, w)
         IN  IF r.raised
             THEN Routed("fault",
                    Return(r.w, create_response(500, [error |-> "Internal server error"])))
             ELSE Routed("api", r)
    ELSE Routed("not_found", Return(w, create_response(404, [error |-> "Resource not found"])))

(* ------------------------------ inputs --------------------------------- *)
(* sequences of length 1..n over a set *)
SeqsUpTo(S, n) == UNION {[1..k -> S] : k \in 1..n}

DataInputs ==
    {JStr(s) : s \in Strings}
    \cup {JInt(<<"0">>), JInt(<<"7">>), JList(<<>>), JList(<<"1", "2">>),
          JDict(<<>>), JDict(<<"k">>)}

TypeInputs == Range(VALID_DATA_TYPES) \cup {"yaml"}

ProcessBodies ==
    {[data |-> d, type |-> t] : d \in DataInputs, t \in TypeInputs}
    \cup {[data |-> d] : d \in DataInputs}
    \cup {[type |-> "text"], NoBody}

ApiEvent(method, resource, body) ==
    [httpMethod |-> method, resource |-> resource, body |-> body]

OtherRoutes(resource) ==
    {ApiEvent("DELETE", resource, NoBody), ApiEvent("GET", resource, NoBody),
     ApiEvent("POST", "/other", NoBody), [httpMethod |-> "POST"]}

UnknownEvents == {EmptyMap, [Records |-> <<>>], NoneEvent}

(* outcomes of the collaborators for an API request *)
ApiEnvs(faults, publishes) ==
    {e \in [init : {"ok"}, fault : faults, publish : publishes, records : {<<>>},
            text : FaultTexts] : e.fault = "none" => e.text = DbError}
    \cup [init : {"fault"}, fault : {"none"}, publish : {"ok"}, records : {<<>>},
          text : FaultTexts]

BatchEnv(outcomes, text) ==
    [init |-> "ok", fault |-> "none", publish |-> "ok", records |-> outcomes, text |-> text]

S3Record == [eventName |-> "ObjectCreated:Put",
             s3 |-> [bucket |-> [name |-> "data-bucket"], object |-> [key |-> "uploads/f"]]]

NoFault == [fault |-> "none", fail_update |-> FALSE]

(* a storage record with the outcome of the collaborator calls made for it *)
S3Cases ==
    {[record |-> S3Record, outcome |-> [fault |-> f, fail_update |-> u]] :
        f \in {"none", "put", "head", "update"}, u \in BOOLEAN}
    \cup {[record |-> [eventName |-> S3Record.eventName], outcome |-> NoFault],
          [record |-> [s3 |-> S3Record.s3], outcome |-> NoFault]}

BatchEvent(cases) == [Records |-> [i \in 1..Len(cases) |-> cases[i].record]]

BatchOutcomes(cases, text) ==
    [i \in 1..Len(cases) |-> ("text" :> text) @@ cases[i].outcome]

(* the texts to tell a batch: one text when no call of the batch faults *)
BatchTexts(cases) ==
    IF \A i \in 1..Len(cases) : cases[i].outcome.fault = "none" THEN {DbError} ELSE FaultTexts

WithMethod(event, method, resource) ==
    [k \in DOMAIN event \cup {"httpMethod", "resource"} |->
        IF k = "httpMethod" THEN method ELSE IF k = "resource" THEN resource ELSE event[k]]

EmailOk == <<"a", "@", "b", ".", "c", "c">>

PhoneOk == <<"+", "1", "2">>

RecipientInputs == {EmailOk, PhoneOk, <<"a", "b">>, <<"0", "1">>, <<" ">>, <<" ">> \o EmailOk}

MessageInputs == {<<"h", "i">>, <<" ">>}

NotifyTypeInputs == {Email, Sms, <<"p", "u", "s", "h">>, <<" ">>}

NotifyBodies ==
    {[recipient |-> r, message |-> m, type |-> t] :
        r \in RecipientInputs, m \in MessageInputs, t \in NotifyTypeInputs}
    \cup {[recipient |-> r, message |-> <<"h", "i">>, type |-> t, subject |-> <<"S">>] :
        r \in {EmailOk, PhoneOk}, t \in {Email, Sms}}
    \cup {[message |-> <<"h", "i">>, type |-> Email], [recipient |-> EmailOk, type |-> Email],
          [recipient |-> EmailOk, message |-> <<"h", "i">>], NoBody}

SnsMessages ==
    {[is_json |-> TRUE, parsed |-> [recipient |-> EmailOk, type |-> Email]],
     [is_json |-> TRUE, parsed |-> EmptyMap],
     [is_json |-> FALSE, parsed |-> EmptyMap]}

SnsRecord(m) == [Sns |-> [Message |-> m, TopicArn |-> "arn:notifications",
                          MessageId |-> "message-1"]]

SnsCases ==
    {[record |-> SnsRecord(m), outcome |-> [fault |-> f]] :
        m \in SnsMessages, f \in {"none", "put", "update"}}
    \cup {[record |-> [EventSource |-> "aws:sns"], outcome |-> [fault |-> "none"]],
          [record |-> [Sns |-> [Message |-> [is_json |-> FALSE, parsed |-> EmptyMap]]],
           outcome |-> [fault |-> "none"]]}

HealthEvents ==
    {[httpMethod |-> "GET", resource |-> "/health"],
     [httpMethod |-> "GET", resource |-> "/health", queryStringParameters |-> NoBody],
     [httpMethod |-> "GET", resource |-> "/health",
      queryStringParameters |-> [details |-> "true"]],
     [httpMethod |-> "GET", resource |-> "/health",
      queryStringParameters |-> [details |-> "false"]]}
    \cup OtherRoutes("/health") \cup {EmptyMap, NoneEvent}

Contexts ==
    {[function_name |-> "health-check"]}
    \cup {[function_name |-> "health-check", function_version |-> "$LATEST",
           memory_limit_in_mb |-> 512, get_remaining_time_in_millis |-> ms] :
            ms \in {0, 30000, 300000, 400000}}

(* ------------------------------ the system ----------------------------- *)
NoInvocation == [handler |-> "none"]

(* the two invocations of SpecPair *)
Procs == {1, 2}

Idle == [status |-> "idle"]

Init ==
    /\ processed_data = EmptyMap
    /\ notifications = EmptyMap
    /\ nextId = 1
    /\ clock = 1
    /\ inv = NoInvocation
    /\ running = [p \in Procs |-> Idle]

Invocation(handler, event, env, r) ==
    [handler |-> handler, event |-> event, env |-> env, raised |-> r.raised,
     response |-> r.resp, route |-> r.route, calls |-> r.w.calls, firstId |-> nextId]

DataProcessor(event, env) ==
    LET r == dp_lambda_handler(event, env, World(processed_data, nextId, clock))
    IN  /\ inv = NoInvocation
        /\ processed_data' = r.w.tbl
        /\ nextId' = r.w.nextId
        /\ clock' = r.w.clock
        /\ inv' = Invocation("data_processor", event, env, r)
        /\ UNCHANGED <<notifications, running>>

DataProcessorApi ==
    \E event \in {ApiEvent("POST", "/process", b) : b \in ProcessBodies}
                  \cup OtherRoutes("/process") \cup UnknownEvents,
       env \in ApiEnvs({"none", "put", "update"}, {"ok"}) :
        DataProcessor(event, env)

DataProcessorBatch ==
    \E cases \in SeqsUpTo(S3Cases, MaxRecords), with_method \in BOOLEAN :
      \E text \in BatchTexts(cases) :
        /\ with_method => Len(cases) = 1
        /\ DataProcessor(IF with_method
                         THEN WithMethod(BatchEvent(cases), "POST", "/process")
                         ELSE BatchEvent(cases),
                         BatchEnv(BatchOutcomes(cases, text), text))

Notification(event, env) ==
    LET r == nt_lambda_handler(event, env, World(notifications, nextId, clock))
    IN  /\ inv = NoInvocation
        /\ notifications' = r.w.tbl
        /\ nextId' = r.w.nextId
        /\ clock' = r.w.clock
        /\ inv' = Invocation("notification", event, env, r)
        /\ UNCHANGED <<processed_data, running>>

NotificationApi ==
    \E event \in {ApiEvent("POST", "/notify", b) : b \in NotifyBodies}
                  \cup OtherRoutes("/notify") \cup UnknownEvents,
       env \in ApiEnvs({"none", "put"}, {"ok", "fault"}) :
        Notification(event, env)

NotificationBatch ==
    \E cases \in SeqsUpTo(SnsCases, MaxRecords), with_method \in BOOLEAN :
      \E text \in BatchTexts(cases) :
        /\ with_method => Len(cases) = 1
        /\ Notification(IF with_method
                        THEN WithMethod(BatchEvent(cases), "POST", "/notify")
                        ELSE BatchEvent(cases),
                         BatchEnv(BatchOutcomes(cases, text), text))

HealthCheck ==
    \E event \in HealthEvents, context \in Contexts, attributes \in {"ok", "raise"},
       text \in FaultTexts :
        LET env == [init |-> "ok", fault |-> "none", publish |-> "ok", records |-> <<>>,
                    text |-> text, attributes |-> attributes, context |-> context]
            r == hc_lambda_handler(event, context, env, World(EmptyMap, nextId, clock))
        IN  /\ inv = NoInvocation
            /\ attributes = "ok" => text = DbError
            /\ clock' = r.w.clock
            /\ inv' = Invocation("health_check", event, env, r)
            /\ UNCHANGED <<processed_data, notifications, nextId, running>>

Next ==
    \/ DataProcessorApi
    \/ DataProcessorBatch
    \/ NotificationApi
    \/ NotificationBatch
    \/ HealthCheck

Spec == Init /\ [][Next]_vars

(* ------------------------- is_valid_phone applied ---------------------- *)
PhoneChars == {"+", "0", "1", "9", "-", "\n"}

Ones(n) == [i \in 1..n |-> "1"]

(* every short string over PhoneChars, digit strings around the upper      *)
(* length limit, and the two examples of the tests                         *)
PhoneInputs ==
    UNION {[1..n -> PhoneChars] : n \in 0..MaxPhoneLen}
    \cup {prefix \o Ones(n) \o suffix :
            prefix \in {<<>>, <<"+">>}, n \in 14..17, suffix \in {<<>>, <<"\n">>}}
    \cup {<<"+", "1", "2", "3", "4", "5", "6", "7", "8", "9", "0">>,
          <<"i", "n", "v", "a", "l", "i", "d", "-", "p", "h", "o", "n", "e">>}

(* is_valid_phone(phone), and POST /notify with type sms for the same      *)
(* recipient, all collaborators working                                    *)
CheckPhone ==
    /\ inv = NoInvocation
    /\ \E phone \in PhoneInputs :
        LET event == ApiEvent("POST", "/notify",
                        [recipient |-> phone, message |-> <<"h", "i">>, type |-> Sms])
            env == [init |-> "ok", fault |-> "none", publish |-> "ok", records |-> <<>>,
                    text |-> DbError]
        IN  inv' = [handler |-> "is_valid_phone", phone |-> phone,
                    result |-> is_valid_phone(phone),
                    response |-> nt_lambda_handler(event, env,
                                    World(notifications, nextId, clock)).resp]
    /\ UNCHANGED <<processed_data, notifications, nextId, clock, running>>

SpecPhone == Init /\ [][CheckPhone]_vars

(* ---------------------- two interleaved invocations -------------------- *)
(* The handlers never read the table: the calls an invocation issues are   *)
(* fixed by its payload, the outcomes of its collaborators, the ids it     *)
(* generates and the clock.  Start runs the handler to obtain them, Step    *)
(* issues the next call against the table, Finish returns the response.    *)
PairS3Cases ==
    {[record |-> S3Record, outcome |-> [fault |-> f, fail_update |-> FALSE]] :
        f \in {"none", "head"}}

PairSnsCases ==
    {[record |-> SnsRecord([is_json |-> FALSE, parsed |-> EmptyMap]),
      outcome |-> [fault |-> f]] : f \in {"none", "update"}}

PairApiEnvs(faults) ==
    [init : {"ok"}, fault : faults, publish : {"ok"}, records : {<<>>}, text : {DbError}]

PairInputs ==
    {[handler |-> "data_processor",
      event |-> ApiEvent("POST", "/process", [data |-> JStr(<<"a">>), type |-> "text"]),
      env |-> e] : e \in PairApiEnvs({"none", "put", "update"})}
    \cup {[handler |-> "data_processor", event |-> BatchEvent(cases),
           env |-> BatchEnv(BatchOutcomes(cases, DbError), DbError)] :
            cases \in SeqsUpTo(PairS3Cases, MaxRecords)}
    \cup {[handler |-> "notification",
           event |-> ApiEvent("POST", "/notify",
                        [recipient |-> EmailOk, message |-> <<"h", "i">>, type |-> Email]),
           env |-> e] : e \in PairApiEnvs({"none", "put"})}
    \cup {[handler |-> "notification", event |-> BatchEvent(cases),
           env |-> BatchEnv(BatchOutcomes(cases, DbError), DbError)] :
            cases \in SeqsUpTo(PairSnsCases, MaxRecords)}

RunHandler(handler, event, env, w) ==
    IF handler = "data_processor" THEN dp_lambda_handler(event, env, w)
    ELSE nt_lambda_handler(event, env, w)

(* the effect of one logged call on the table it is issued against *)
ApplyCall(tbl, c) ==
    CASE c.op = "put" -> put_item(World(tbl, 0, 0), c.arg, c.ok).tbl
      [] c.op = "update" -> update_item(World(tbl, 0, 0), c.id, c.arg, c.ok).tbl
      [] OTHER -> tbl

Start(p) ==
    /\ inv = NoInvocation
    /\ running[p].status = "idle"
    /\ \A q \in Procs : q < p => running[q].status # "idle"
    /\ \E input \in PairInputs :
        LET r == RunHandler(input.handler, input.event, input.env,
                            World(EmptyMap, nextId, clock))
        IN  /\ running' = [running EXCEPT ![p] =
                    [status |-> "active", handler |-> input.handler,
                     event |-> input.event, env |-> input.env,
                     firstId |-> nextId, lastId |-> r.w.nextId - 1, startClock |-> clock,
                     calls |-> r.w.calls, pc |-> 0, response |-> r.resp]]
            /\ nextId' = r.w.nextId
            /\ clock' = r.w.clock
    /\ UNCHANGED <<processed_data, notifications, inv>>

Step(p) ==
    /\ running[p].status = "active"
    /\ running[p].pc < Len(running[p].calls)
    /\ LET c == running[p].calls[running[p].pc + 1]
       IN  IF running[p].handler = "data_processor"
           THEN /\ processed_data' = ApplyCall(processed_data, c)
                /\ UNCHANGED notifications
           ELSE /\ notifications' = ApplyCall(notifications, c)
                /\ UNCHANGED processed_data
    /\ running' = [running EXCEPT ![p].pc = @ + 1]
    /\ UNCHANGED <<nextId, clock, inv>>

Finish(p) ==
    /\ running[p].status = "active"
    /\ running[p].pc = Len(running[p].calls)
    /\ running' = [running EXCEPT ![p].status = "done"]
    /\ UNCHANGED <<processed_data, notifications, nextId, clock, inv>>

NextPair ==
    \/ \E p \in Procs : Start(p)
    \/ \E p \in Procs : Step(p)
    \/ \E p \in Procs : Finish(p)

SpecPair == Init /\ [][NextPair]_vars

(* ------------------------------- claims -------------------------------- *)
Invoked(handler) == inv.handler = handler

HasRecords(event) == "Records" \in DOMAIN event /\ event.Records # <<>>

(* the payload is an API request for the route, and not a batch *)
IsRequest(event, method, resource) ==
    /\ event # NoneEvent
    /\ ~HasRecords(event)
    /\ "httpMethod" \in DOMAIN event /\ event.httpMethod = method
    /\ "resource" \in DOMAIN event /\ event.resource = resource

BodyOf(event) == IF "body" \in DOMAIN event THEN event.body ELSE NoBody

CallsOf(op) == SelectSeq(inv.calls, LAMBDA c : c.op = op)

StateStoreWorks == inv.env.init = "ok" /\ inv.env.fault = "none"

InternalServerError == create_response(500, [error |-> "Internal server error"])

(* POST /notify with a valid recipient, a non-empty message and a valid type *)
ValidNotify(event) ==
    /\ IsRequest(event, "POST", "/notify")
    /\ BodyOf(event) # NoBody
    /\ {"recipient", "message", "type"} \subseteq DOMAIN event.body
    /\ strip(event.body.message) # <<>>
    /\ \/ strip(event.body.type) = Email /\ is_valid_email(strip(event.body.recipient))
       \/ strip(event.body.type) = Sms /\ is_valid_phone(strip(event.body.recipient))

(* C1: a valid POST /notify whose publish call succeeds ends 'sent': the   *)
(* response is 200 with notification.status = 'sent' and an id, and the   *)
(* stored record has status 'sent' and no error attribute.                *)
C1_SentWhenPublishSucceeds ==
    (Invoked("notification") /\ ValidNotify(inv.event) /\ StateStoreWorks
        /\ inv.env.publish = "ok")
    => /\ inv.response.statusCode = 200
       /\ "id" \in DOMAIN inv.response.body.notification
       /\ inv.response.body.notification.status = "sent"
       /\ inv.response.body.notification.id \in DOMAIN notifications
       /\ notifications[inv.response.body.notification.id].status = "sent"
       /\ "error" \notin DOMAIN notifications[inv.response.body.notification.id]

WellFormedCount(records) ==
    Cardinality({i \in 1..Len(records) : S3WellFormed(records[i])})

(* C2: in a storage batch a fault on one record never prevents the later   *)
(* records from being attempted (each well-formed record gets its put),    *)
(* and the batch response is 200.                                          *)
C2_FaultDoesNotAbortBatch ==
    (Invoked("data_processor") /\ inv.route = "batch")
    => /\ inv.response.statusCode = 200
       /\ Len(CallsOf("put")) = WellFormedCount(inv.event.Records)

(* the batch is well formed, exactly the lookups in `failing` fail and     *)
(* every state-store call succeeds                                        *)
OnlyLookupsFail ==
    /\ Invoked("data_processor") /\ inv.route = "batch"
    /\ \A i \in 1..Len(inv.event.Records) :
        /\ S3WellFormed(inv.event.Records[i])
        /\ \/ inv.env.records[i].fault = "none"
           \/ inv.env.records[i].fault = "head" /\ ~inv.env.records[i].fail_update

FailedLookups == {i \in 1..Len(inv.event.Records) : inv.env.records[i].fault = "head"}

WithStatus(table, status) == {id \in DOMAIN table : table[id].status = status}

(* C3: a batch of N well-formed records of which F fail the metadata       *)
(* lookup, with a working state store, returns 200 with processed_records  *)
(* = N - F = the number of records stored 'completed'; the F others are   *)
(* stored 'failed'.                                                        *)
C3_ProcessedCount ==
    OnlyLookupsFail
    => LET N == Len(inv.event.Records)
           F == Cardinality(FailedLookups)
       IN  /\ inv.response.statusCode = 200
           /\ inv.response.body.processed_records = N - F
           /\ Cardinality(WithStatus(processed_data, "completed")) = N - F
           /\ Cardinality(WithStatus(processed_data, "failed")) = F
           /\ Cardinality(DOMAIN processed_data) = N

C3_Witness ==
    /\ OnlyLookupsFail
    /\ Len(inv.event.Records) = MaxRecords
    /\ Cardinality(FailedLookups) = 1
    /\ inv.response.body.processed_records = MaxRecords - 1

(* C4: data_processor and notification classify the payload (a mapping,    *)
(* the collaborators constructed) in a fixed order with one outcome:       *)
(* non-empty Records -> batch handler (even with httpMethod); else         *)
(* httpMethod -> the API route table; else 400 Unknown event type.         *)
C4_ClassificationOrder ==
    (inv.handler \in {"data_processor", "notification"} /\ inv.env.init = "ok"
        /\ inv.event # NoneEvent)
    => /\ HasRecords(inv.event) => inv.route = "batch"
       /\ (~HasRecords(inv.event) /\ "httpMethod" \in DOMAIN inv.event)
            => inv.route \in {"api", "not_found"}
       /\ (~HasRecords(inv.event) /\ "httpMethod" \notin DOMAIN inv.event)
            => /\ inv.route = "unknown"
               /\ inv.response = create_response(400, [error |-> "Unknown event type"])

C4_Witness ==
    /\ Invoked("data_processor") /\ inv.env.init = "ok"
    /\ HasRecords(inv.event) /\ "httpMethod" \in DOMAIN inv.event
    /\ inv.route = "batch"

(* a fault is raised while lambda_handler classifies or dispatches *)
DispatchFault ==
    \/ inv.event = NoneEvent
    \/ inv.handler \in {"data_processor", "notification"} /\ inv.env.init = "fault"
    \/ /\ Invoked("health_check") /\ IsRequest(inv.event, "GET", "/health")
       /\ inv.env.attributes = "raise"
       /\ "queryStringParameters" \in DOMAIN inv.event
       /\ inv.event.queryStringParameters = [details |-> "true"]

C7_OnePublishPerRequest ==
    (Invoked("notification") /\ ValidNotify(inv.event) /\ inv.env.init = "ok")
    => /\ Len(CallsOf("publish")) = 1
       /\ CallsOf("publish")[1].arg.notification_type = strip(inv.event.body.type)

(* C8: a POST /process or POST /notify that returns 400 has performed no   *)
(* state-store put, no update and no publish call.                         *)
C8_NoMutationBefore400 ==
    (/\ \/ Invoked("data_processor") /\ IsRequest(inv.event, "POST", "/process")
        \/ Invoked("notification") /\ IsRequest(inv.event, "POST", "/notify")
     /\ inv.response.statusCode = 400)
    => /\ inv.calls = <<>>
       /\ DOMAIN processed_data = {}
       /\ DOMAIN notifications = {}

C8_Witness ==
    /\ Invoked("data_processor") /\ IsRequest(inv.event, "POST", "/process")
    /\ inv.response.statusCode = 400
    /\ BodyOf(inv.event) # NoBody
    /\ "data" \in DOMAIN inv.event.body /\ Truthy(inv.event.body.data)

(* C9: a POST /process that returns 200 made exactly one put, of a record  *)
(* with status 'queued' holding the raw data, then exactly one update of   *)
(* the same id to 'completed' with the result; the record never holds      *)
(* 'processing'; processed_data.id is that record's id.                    *)
C9_PutThenUpdate ==
    (Invoked("data_processor") /\ IsRequest(inv.event, "POST", "/process")
        /\ inv.response.statusCode = 200)
    => /\ Len(inv.calls) = 2
       /\ inv.calls[1].op = "put" /\ inv.calls[1].ok
       /\ inv.calls[1].arg.status = "queued"
       /\ inv.calls[1].arg.data = inv.event.body.data
       /\ inv.calls[2].op = "update" /\ inv.calls[2].ok
       /\ inv.calls[2].id = inv.calls[1].id
       /\ inv.calls[2].arg.status = "completed"
       /\ "result" \in DOMAIN inv.calls[2].arg
       /\ inv.response.body.processed_data.id = inv.calls[1].id
       /\ processed_data[inv.calls[1].id].status = "completed"
       /\ \A i \in 1..Len(inv.calls) : inv.calls[i].arg.status # "processing"

C9_Witness ==
    /\ Invoked("data_processor") /\ IsRequest(inv.event, "POST", "/process")
    /\ inv.response.statusCode = 200
    /\ Len(inv.calls) = 2

(* the body carries a non-empty, non-whitespace string and a valid type, or none *)
ValidProcessString(event) ==
    /\ IsRequest(event, "POST", "/process")
    /\ BodyOf(event) # NoBody
    /\ "data" \in DOMAIN event.body
    /\ event.body.data.t = "str"
    /\ \E i \in 1..Len(event.body.data.s) : event.body.data.s[i] \notin Whitespace
    /\ "type" \in DOMAIN event.body => event.body.type \in Range(VALID_DATA_TYPES)

(* C10: POST /process with a non-blank string and a valid (or absent, then *)
(* text) type returns 200 with processed_data.status = 'processed', the    *)
(* effective type, and size = the character length of data (the state     *)
(* store working).                                                         *)
C10_SizeIsLength ==
    (Invoked("data_processor") /\ ValidProcessString(inv.event) /\ StateStoreWorks)
    => /\ inv.response.statusCode = 200
       /\ inv.response.body.processed_data.status = "processed"
       /\ inv.response.body.processed_data.type = Get(inv.event.body, "type", "text")
       /\ inv.response.body.processed_data.size = Len(inv.event.body.data.s)

C10_Witness ==
    /\ Invoked("data_processor") /\ ValidProcessString(inv.event) /\ StateStoreWorks
    /\ "type" \notin DOMAIN inv.event.body
    /\ inv.event.body.data.s[Len(inv.event.body.data.s)] \in Whitespace
    /\ inv.response.body.processed_data.size = MaxLen

(* POST /process reaching handle_api_request with a type outside the valid set *)
InvalidTypeRequest ==
    /\ Invoked("data_processor") /\ inv.env.init = "ok"
    /\ IsRequest(inv.event, "POST", "/process")
    /\ BodyOf(inv.event) # NoBody
    /\ "type" \in DOMAIN inv.event.body
    /\ inv.event.body.type \notin Range(VALID_DATA_TYPES)

(* the body carries data that passes the emptiness check *)
HasData(event) ==
    /\ BodyOf(event) # NoBody
    /\ "data" \in DOMAIN event.body
    /\ Truthy(event.body.data)
    /\ event.body.data.t = "str" => strip(event.body.data.s) # <<>>

ListsValidTypes(response) ==
    /\ "valid" \in DOMAIN response.body
    /\ response.body.valid = VALID_DATA_TYPES

(* C11 as stated: every POST /process whose type is outside {text, json,   *)
(* csv, xml, binary} gets 400 with an error message listing the valid set. *)
C11_InvalidTypeListsValidSet ==
    InvalidTypeRequest
    => /\ inv.response.statusCode = 400
       /\ ListsValidTypes(inv.response)

(* C11 amended: such a request always gets 400; the message lists the      *)
(* valid set when the data field is present and non-empty, and is the data *)
(* error otherwise (the data checks run first).                            *)
C11_InvalidTypeRejected ==
    InvalidTypeRequest
    => /\ inv.response.statusCode = 400
       /\ inv.calls = <<>>
       /\ HasData(inv.event) <=> ListsValidTypes(inv.response)
       /\ HasData(inv.event) => inv.response = dp_invalid_type

C11_Witness ==
    /\ InvalidTypeRequest /\ HasData(inv.event)
    /\ inv.response = dp_invalid_type
(* the body is absent, lacks the data field, or its data is an empty or    *)
(* whitespace-only string                                                  *)
NoUsableData(event) ==
    \/ BodyOf(event) = NoBody
    \/ "data" \notin DOMAIN event.body
    \/ event.body.data.t = "str" /\ strip(event.body.data.s) = <<>>

(* C12: a POST /process whose body is absent, lacks data, or whose data is *)
(* the empty or a whitespace-only string gets 400 with an error string,    *)
(* whatever the type field holds.                                          *)
C12_EmptyDataRejected ==
    (Invoked("data_processor") /\ inv.env.init = "ok"
        /\ IsRequest(inv.event, "POST", "/process") /\ NoUsableData(inv.event))
    => /\ inv.response.statusCode = 400
       /\ DOMAIN inv.response.body = {"error"}
       /\ inv.response.body.error \in
            {"Request body must contain \"data\" field", "Data cannot be empty"}

C12_Witness ==
    /\ Invoked("data_processor") /\ inv.env.init = "ok"
    /\ IsRequest(inv.event, "POST", "/process")
    /\ BodyOf(inv.event) # NoBody
    /\ "data" \in DOMAIN inv.event.body
    /\ inv.event.body.data.t = "str" /\ Len(inv.event.body.data.s) = MaxLen
    /\ strip(inv.event.body.data.s) = <<>>
    /\ "type" \in DOMAIN inv.event.body
    /\ inv.event.body.type \notin Range(VALID_DATA_TYPES)
    /\ inv.response = create_response(400, [error |-> "Data cannot be empty"])
(* the field is missing from the body or whitespace-only *)
Blank(body, key) == key \notin DOMAIN body \/ strip(body[key]) = <<>>

(* the checks of C13 that the body fails, as positions in the stated order *)
FailedNotifyChecks(event) ==
    LET body == BodyOf(event)
    IN  IF body = NoBody THEN {1}
        ELSE {k \in 2..6 :
                \/ k = 2 /\ Blank(body, "recipient")
                \/ k = 3 /\ Blank(body, "message")
                \/ k = 4 /\ Blank(body, "type")
                \/ k = 5 /\ ~Blank(body, "type")
                         /\ strip(body.type) \notin {Email, Sms}
                \/ k = 6 /\ ~Blank(body, "type") /\ ~Blank(body, "recipient")
                         /\ \/ strip(body.type) = Email
                                /\ ~is_valid_email(strip(body.recipient))
                            \/ strip(body.type) = Sms
                                /\ ~is_valid_phone(strip(body.recipient))}

Min(S) == CHOOSE x \in S : \A y \in S : x <= y

(* the error message of each check, for a request of the given type *)
NotifyErrorOf(k, event) ==
    CASE k = 1 -> "Request body is required"
      [] k = 2 -> "Recipient is required"
      [] k = 3 -> "Message is required"
      [] k = 4 -> "Type is required"
      [] k = 5 -> "Invalid type. Must be one of"
      [] k = 6 -> IF strip(event.body.type) = Email
                  THEN "Invalid email format" ELSE "Invalid phone number format"

NotifyRequest ==
    /\ Invoked("notification") /\ inv.env.init = "ok"
    /\ IsRequest(inv.event, "POST", "/notify")

(* C13: POST /notify returns 400 when the body is absent, when recipient,  *)
(* message or type is missing or blank after trimming, when type is not    *)
(* email or sms, or when the recipient does not match the format of its    *)
(* type; the first failing check, in that order, determines the message.   *)
C13_ValidationOrder ==
    NotifyRequest
    => LET failed == FailedNotifyChecks(inv.event)
       IN  /\ failed # {}
                => /\ inv.response.statusCode = 400
                   /\ inv.response.body.error = NotifyErrorOf(Min(failed), inv.event)
                   /\ inv.calls = <<>>
           /\ failed = {} => inv.response.statusCode # 400

C13_Witness ==
    /\ NotifyRequest
    /\ {3, 5} \subseteq FailedNotifyChecks(inv.event)
    /\ 2 \notin FailedNotifyChecks(inv.event)
    /\ inv.response = create_response(400, [error |-> "Message is required"])
(* positions in the call log of the calls with the given op *)
PositionsOf(op) == {i \in 1..Len(inv.calls) : inv.calls[i].op = op}

(* C14: a valid POST /notify makes exactly one state-store put and no      *)
(* update for its generated id, the put comes after the send attempt, and  *)
(* when the put succeeds the stored status is the status in the response.  *)
C14_SinglePutAfterSend ==
    (Invoked("notification") /\ ValidNotify(inv.event) /\ inv.env.init = "ok")
    => /\ Len(CallsOf("put")) = 1
       /\ CallsOf("put")[1].id = inv.firstId
       /\ CallsOf("update") = <<>>
       /\ Cardinality(PositionsOf("send")) = 1
       /\ \A i \in PositionsOf("send"), j \in PositionsOf("put") : i < j
       /\ CallsOf("put")[1].arg.status \in {"sent", "failed"}
       /\ inv.env.fault = "none"
            => /\ inv.response.statusCode = 200
               /\ inv.response.body.notification.id = inv.firstId
               /\ DOMAIN notifications = {inv.firstId}
               /\ notifications[inv.firstId].status
                    = inv.response.body.notification.status

C14_Witness ==
    /\ Invoked("notification") /\ ValidNotify(inv.event) /\ StateStoreWorks
    /\ Len(CallsOf("put")) = 1 /\ Cardinality(PositionsOf("send")) = 1
    /\ inv.response.statusCode = 200
    /\ notifications[inv.firstId].status = inv.response.body.notification.status
(* the messages of the batch handled without fault *)
HandledMessages ==
    {i \in 1..Len(inv.event.Records) :
        SnsWellFormed(inv.event.Records[i]) /\ inv.env.records[i].fault = "none"}

(* the messages of the batch that reach the put: those with their fields *)
AttemptedMessages ==
    {i \in 1..Len(inv.event.Records) : SnsWellFormed(inv.event.Records[i])}

(* C15: in a pub/sub batch each message handled without fault is put       *)
(* 'received' and then updated to 'processed'; a fault on one message      *)
(* (missing Sns fields, put fault, update fault) does not abort the batch; *)
(* the response is 200 with processed_records = the number of records that *)
(* reached 'processed'.                                                    *)
C15_PubSubFlow ==
    (Invoked("notification") /\ inv.env.init = "ok" /\ HasRecords(inv.event))
    => /\ inv.response.statusCode = 200
       /\ inv.response.body.processed_records = Cardinality(HandledMessages)
       /\ Cardinality(WithStatus(notifications, "processed")) = Cardinality(HandledMessages)
       /\ Len(CallsOf("put")) = Cardinality(AttemptedMessages)
       /\ \A i \in PositionsOf("put") : inv.calls[i].arg.status = "received"
       /\ \A j \in PositionsOf("update") :
            /\ inv.calls[j].arg.status = "processed"
            /\ j > 1 /\ inv.calls[j-1].op = "put" /\ inv.calls[j-1].ok
            /\ inv.calls[j-1].id = inv.calls[j].id
       /\ \A id \in WithStatus(notifications, "processed") :
            \E j \in PositionsOf("update") : inv.calls[j].id = id /\ inv.calls[j].ok
       /\ CallsOf("publish") = <<>>

C15_Witness ==
    /\ Invoked("notification") /\ HasRecords(inv.event)
    /\ Len(inv.event.Records) = MaxRecords
    /\ inv.env.records[1].fault = "update"
    /\ SnsWellFormed(inv.event.Records[1])
    /\ HandledMessages = {MaxRecords}
    /\ inv.response.body.processed_records = 1
    /\ Cardinality(WithStatus(notifications, "received")) = 1
(* POST /process with data that passes validation and a valid or absent type *)
ValidProcess(event) ==
    /\ IsRequest(event, "POST", "/process")
    /\ HasData(event)
    /\ "type" \in DOMAIN event.body => event.body.type \in Range(VALID_DATA_TYPES)

(* the state-store calls of the invocation that faulted *)
FailedStoreCalls == {i \in 1..Len(inv.calls) : inv.calls[i].op \in {"put", "update"} /\ ~inv.calls[i].ok}

(* C16: a state-store fault during a synchronous API request (the put or   *)
(* the update of POST /process, the put of POST /notify) aborts the        *)
(* request with 500 and the body {"error": "Failed to process data"},      *)
(* resp. {"error": "Failed to send notification"}; it never returns 200.   *)
C16_StoreFaultAborts ==
    /\ (Invoked("data_processor") /\ inv.env.init = "ok" /\ ValidProcess(inv.event)
            /\ inv.env.fault \in {"put", "update"})
        => /\ inv.response = create_response(500, [error |-> "Failed to process data"])
           /\ FailedStoreCalls = {Len(inv.calls)}
           /\ inv.calls[Len(inv.calls)].op = inv.env.fault
    /\ (Invoked("notification") /\ inv.env.init = "ok" /\ ValidNotify(inv.event)
            /\ inv.env.fault = "put")
        => /\ inv.response = create_response(500, [error |-> "Failed to send notification"])
           /\ FailedStoreCalls = {Len(inv.calls)}
    /\ (inv.handler \in {"data_processor", "notification"} /\ inv.route = "api"
            /\ FailedStoreCalls # {})
        => inv.response.statusCode = 500

C16_Witness ==
    /\ Invoked("notification") /\ inv.env.init = "ok" /\ ValidNotify(inv.event)
    /\ inv.env.fault = "put"
    /\ FailedStoreCalls # {}
    /\ inv.response.statusCode = 500
    /\ DOMAIN notifications = {}
(* the route each handler supports *)
SupportedRoute(handler) ==
    CASE handler = "data_processor" -> [method |-> "POST", resource |-> "/process"]
      [] handler = "notification" -> [method |-> "POST", resource |-> "/notify"]
      [] handler = "health_check" -> [method |-> "GET", resource |-> "/health"]

(* the payload is classified as an API request (it carries httpMethod and  *)
(* no non-empty Records) and its (resource, httpMethod) pair is not the    *)
(* handler's route                                                         *)
UnsupportedApiRequest ==
    /\ ~Invoked("none") /\ inv.env.init = "ok"
    /\ inv.event # NoneEvent /\ ~HasRecords(inv.event)
    /\ "httpMethod" \in DOMAIN inv.event
    /\ \/ inv.event.httpMethod # SupportedRoute(inv.handler).method
       \/ Get(inv.event, "resource", "") # SupportedRoute(inv.handler).resource

(* C17: an API request whose (resource, httpMethod) pair is not the        *)
(* handler's route gets 404 {"error": "Resource not found"}; no            *)
(* state-store write, publish or lookup call is made.                      *)
C17_UnmatchedRouteIs404 ==
    UnsupportedApiRequest
    => /\ inv.response = create_response(404, [error |-> "Resource not found"])
       /\ inv.calls = <<>>
       /\ DOMAIN processed_data = {} /\ DOMAIN notifications = {}

C17_Witness ==
    /\ UnsupportedApiRequest /\ Invoked("health_check")
    /\ inv.event.httpMethod = "DELETE" /\ Get(inv.event, "resource", "") = "/health"
    /\ inv.response.statusCode = 404
(* the error strings of the 500 responses in the three handlers *)
FixedErrors ==
    {"Internal server error", "Failed to process data", "Failed to process S3 event",
     "Failed to send notification", "Failed to process SNS event"}

(* the collaborator outcomes of the invocation, raising with another text *)
WithText(env, text) ==
    [env EXCEPT !.text = text,
                !.records = [i \in DOMAIN @ |-> [@[i] EXCEPT !.text = text]]]

(* the response of the same handler to the same payload from the same      *)
(* initial state, when the faults of the invocation carry the given text   *)
ResponseWithText(text) ==
    LET env == WithText(inv.env, text)
        w == World(EmptyMap, inv.firstId, 1)
    IN  CASE Invoked("data_processor") -> dp_lambda_handler(inv.event, env, w).resp
          [] Invoked("notification") -> nt_lambda_handler(inv.event, env, w).resp
          [] Invoked("health_check") ->
                hc_lambda_handler(inv.event, env.context, env, w).resp

(* some collaborator call of the invocation raised *)
SomeFault ==
    \/ inv.env.init = "fault"
    \/ \E i \in 1..Len(inv.calls) : ~inv.calls[i].ok
    \/ Invoked("health_check") /\ inv.env.attributes = "raise"

(* C18: the body of a 500 response is {"error": e} with e one of a fixed   *)
(* set of constant strings, and the response is the same whatever the      *)
(* message text of the exception a collaborator raised.                    *)
C18_NoFaultTextIn500 ==
    (~Invoked("none") /\ inv.response.statusCode = 500)
    => /\ DOMAIN inv.response.body = {"error"}
       /\ inv.response.body.error \in FixedErrors
       /\ inv.response.body.error \notin FaultTexts
       /\ \A text \in FaultTexts : ResponseWithText(text) = inv.response

C18_Witness ==
    /\ Invoked("data_processor") /\ inv.route = "api"
    /\ inv.env.fault = "update" /\ inv.env.text = NotFound
    /\ SomeFault
    /\ inv.response = create_response(500, [error |-> "Failed to process data"])
    /\ ResponseWithText(DbError) = inv.response
(* GET /health reaching handle_health_check *)
HealthRequest == Invoked("health_check") /\ IsRequest(inv.event, "GET", "/health")

WantsDetails(event) ==
    /\ "queryStringParameters" \in DOMAIN event
    /\ event.queryStringParameters = [details |-> "true"]

(* C19: GET /health always answers 200 with status 'healthy'; with         *)
(* details=true and an enrichment source that raises, the details section  *)
(* is omitted.                                                             *)
C19_DetailsFailureStillHealthy ==
    HealthRequest
    => /\ inv.response.statusCode = 200
       /\ inv.response.body.status = "healthy"
       /\ (WantsDetails(inv.event) /\ inv.env.attributes = "raise")
            => "details" \notin DOMAIN inv.response.body

RecordOutcomes ==
    IF Invoked("data_processor")
    THEN [fault : {"none", "put", "head", "update"}, fail_update : BOOLEAN,
          text : {inv.env.text}]
    ELSE [fault : {"none", "put", "update"}, text : {inv.env.text}]

(* the branch lambda_handler takes for the same payload when the           *)
(* collaborators behave as in outcomes                                     *)
RouteWith(outcomes) ==
    LET env == [inv.env EXCEPT !.records = outcomes]
        w == World(EmptyMap, inv.firstId, 1)
    IN  IF Invoked("data_processor") THEN dp_lambda_handler(inv.event, env, w).route
        ELSE nt_lambda_handler(inv.event, env, w).route

(* C21: a payload with a non-empty Records list enters the batch handler   *)
(* of data_processor and of notification, and so does every other          *)
(* invocation with the same payload, whatever the state store and the      *)
(* lookup do for any of its records (the collaborators constructed).       *)
C21_RoutingIgnoresOutcomes ==
    (inv.handler \in {"data_processor", "notification"} /\ inv.env.init = "ok"
        /\ HasRecords(inv.event))
    => /\ inv.route = "batch"
       /\ \A outcomes \in [1..Len(inv.event.Records) -> RecordOutcomes] :
            RouteWith(outcomes) = "batch"

C21_Witness ==
    /\ Invoked("data_processor") /\ HasRecords(inv.event)
    /\ Len(inv.event.Records) = MaxRecords
    /\ inv.env.records[1].fault = "put"
    /\ inv.route = "batch"
    /\ RouteWith([i \in 1..MaxRecords |->
            [fault |-> "none", fail_update |-> FALSE, text |-> inv.env.text]]) = "batch"
Started == {p \in Procs : running[p].status # "idle"}

(* the store calls invocation p has issued so far *)
IssuedBy(p) ==
    {i \in 1..running[p].pc : running[p].calls[i].op \in {"put", "update"}}

WrittenBy(p) == {running[p].calls[i].id : i \in IssuedBy(p)}

GeneratedBy(p) == running[p].firstId..running[p].lastId

TableOf(p) == IF running[p].handler = "data_processor" THEN "processed_data" ELSE "notifications"

Tables == [processed_data |-> processed_data, notifications |-> notifications]

(* invocation p executed alone, to completion, on the given tables *)
Alone(p, tables) ==
    RunHandler(running[p].handler, running[p].event, running[p].env,
               World(tables[TableOf(p)], running[p].firstId, running[p].startClock))

After(p, tables) == [tables EXCEPT ![TableOf(p)] = Alone(p, tables).w.tbl]

Sequential(p, q) ==
    After(q, After(p, [processed_data |-> EmptyMap, notifications |-> EmptyMap]))

(* C22: two invocations interleaved at their collaborator calls, with      *)
(* distinct generated ids: each id is written only by the invocation that  *)
(* generated it, and once both have returned the tables and the responses  *)
(* are those of the two invocations executed one after the other, in       *)
(* either order.                                                           *)
C22_InterleavingIsSequential ==
    /\ \A p \in Started : WrittenBy(p) \subseteq GeneratedBy(p)
    /\ \A p, q \in Started : p # q => WrittenBy(p) \cap WrittenBy(q) = {}
    /\ (\A p \in Procs : running[p].status = "done")
        => /\ Tables = Sequential(1, 2)
           /\ Tables = Sequential(2, 1)
           /\ \A p \in Procs :
                running[p].response = Alone(p, [processed_data |-> EmptyMap,
                                               notifications |-> EmptyMap]).resp

(* both invocations write the same table and each has issued a write and  *)
(* has calls left: their calls are interleaved                             *)
C22_Witness ==
    /\ \A p \in Procs :
        /\ running[p].status = "active" /\ running[p].handler = "data_processor"
        /\ WrittenBy(p) # {}
        /\ running[p].pc < Len(running[p].calls)
    /\ DOMAIN processed_data = WrittenBy(1) \cup WrittenBy(2)
(* the calls of the invocation with the given op made for the given id *)
CallsFor(op, id) == {i \in PositionsOf(op) : inv.calls[i].id = id}

IdsOf(op) == {inv.calls[i].id : i \in PositionsOf(op)}

(* C23: in one storage-batch invocation the put and the metadata lookup    *)
(* are each attempted at most once per record: no more puts or lookups     *)
(* than records, one id per put, and no id is put or looked up twice, a    *)
(* failed lookup included.                                                 *)
C23_NoRetryInBatch ==
    (Invoked("data_processor") /\ inv.route = "batch")
    => /\ Len(CallsOf("put")) <= Len(inv.event.Records)
       /\ Len(CallsOf("head_object")) <= Len(CallsOf("put"))
       /\ \A id \in IdsOf("put") : Cardinality(CallsFor("put", id)) = 1
       /\ \A id \in IdsOf("head_object") :
            /\ Cardinality(CallsFor("head_object", id)) = 1
            /\ id \in IdsOf("put")
       /\ \A i \in PositionsOf("head_object") :
            ~inv.calls[i].ok
            => \A j \in (i+1)..Len(inv.calls) :
                inv.calls[j].op = "head_object" => inv.calls[j].id # inv.calls[i].id

C23_Witness ==
    /\ Invoked("data_processor") /\ inv.route = "batch"
    /\ Len(inv.event.Records) = MaxRecords
    /\ inv.env.records[1].fault = "head"
    /\ Len(CallsOf("head_object")) = MaxRecords
    /\ ~CallsOf("head_object")[1].ok
    /\ inv.response.statusCode = 200
(* an optional leading '+' followed by 2 to 15 decimal digits whose first  *)
(* digit is 1-9                                                            *)
PhoneFormat(s) ==
    LET digits == IF s # <<>> /\ Head(s) = "+" THEN Tail(s) ELSE s
    IN  /\ Len(digits) \in 2..15
        /\ \A k \in 1..Len(digits) : digits[k] \in Digits
        /\ digits[1] # "0"

(* C24: is_valid_phone(s) is true exactly when s is an optional '+' and 2  *)
(* to 15 decimal digits starting with 1-9, and POST /notify with type sms  *)
(* returns 400 for every recipient it rejects.                             *)
C24_PhoneFormat ==
    Invoked("is_valid_phone")
    => /\ inv.result <=> PhoneFormat(inv.phone)
       /\ ~PhoneFormat(inv.phone) => inv.response.statusCode = 400
(* the puts invocation p has issued so far, as positions of its call log *)
PutsBy(p) == {i \in 1..running[p].pc : running[p].calls[i].op = "put"}

(* the puts issued so far for the id, by any invocation *)
PutsOf(id) == {<<p, i>> \in Started \X (1..(3 * MaxRecords)) :
                i \in PutsBy(p) /\ running[p].calls[i].id = id}

(* C25: over the invocations of a run no id is passed to put twice: each   *)
(* put uses an id generated by the same invocation, not used by any        *)
(* earlier call, and later calls for that id are updates (or the lookup).  *)
C25_NoReinsert ==
    \A p \in Started :
        \A i \in PutsBy(p) :
            LET id == running[p].calls[i].id
            IN  /\ id \in GeneratedBy(p)
                /\ PutsOf(id) = {<<p, i>>}
                /\ \A j \in 1..(i-1) : running[p].calls[j].id # id
                /\ \A j \in (i+1)..running[p].pc :
                    running[p].calls[j].id = id
                    => running[p].calls[j].op \in {"update", "head_object"}

(* the second invocation starts after the first returned, and both have    *)
(* inserted a record into the same table                                   *)
C25_Witness ==
    /\ running[1].status = "done" /\ running[2].status = "active"
    /\ running[1].handler = running[2].handler
    /\ \E i \in PutsBy(1) : running[1].calls[i].ok
    /\ \E i \in PutsBy(2) : running[2].calls[i].ok
    /\ running[2].firstId > running[1].lastId
(* the table the invoked handler writes *)
TableOfInv == IF Invoked("data_processor") THEN processed_data ELSE notifications

(* the calls of the invocation for the id that write the field *)
WritesOf(field, id) ==
    {i \in 1..Len(inv.calls) :
        /\ inv.calls[i].op \in {"put", "update"}
        /\ inv.calls[i].id = id
        /\ field \in DOMAIN inv.calls[i].arg}

(* C26: no update changes a record's id, type or created_at (the stored    *)
(* record keeps those of its put), and each of completed_at, processed_at  *)
(* and failed_at is written at most once per record.                       *)
C26_ImmutableFields ==
    inv.handler \in {"data_processor", "notification"}
    => /\ \A j \in PositionsOf("update") :
            DOMAIN inv.calls[j].arg \cap {"id", "type", "created_at"} = {}
       /\ \A i \in PositionsOf("put") :
            inv.calls[i].ok
            => LET rec == TableOfInv[inv.calls[i].id]
               IN  /\ rec.id = inv.calls[i].id
                   /\ rec.type = inv.calls[i].arg.type
                   /\ rec.created_at = inv.calls[i].arg.created_at
       /\ \A id \in IdsOf("put") \cup IdsOf("update") :
            \A field \in {"completed_at", "processed_at", "failed_at"} :
                Cardinality(WritesOf(field, id)) <= 1

(* a storage record whose update to 'completed' faulted and was then       *)
(* marked 'failed'                                                         *)
C26_Witness ==
    /\ Invoked("data_processor") /\ inv.route = "batch"
    /\ \E id \in DOMAIN processed_data :
        /\ Cardinality(WritesOf("completed_at", id)) = 1
        /\ Cardinality(WritesOf("failed_at", id)) = 1
        /\ processed_data[id].status = "failed"
        /\ "completed_at" \notin DOMAIN processed_data[id]
        /\ processed_data[id].created_at < processed_data[id].failed_at
(* the successful writes of the invocation to the id, in order *)
WritesTo(id) ==
    SelectSeq(inv.calls, LAMBDA c : c.op \in {"put", "update"} /\ c.id = id /\ c.ok)

(* the status changes the flows allow *)
AllowedChanges ==
    CASE Invoked("data_processor") /\ inv.route = "api" -> {<<"queued", "completed">>}
      [] Invoked("data_processor") /\ inv.route = "batch" ->
            {<<"processing", "completed">>, <<"processing", "failed">>}
      [] Invoked("notification") /\ inv.route = "batch" -> {<<"received", "processed">>}
      [] OTHER -> {}

TerminalStatuses == {"completed", "failed", "processed", "sent"}

(* C27: every status change of a stored record is queued -> completed      *)
(* (POST /process), processing -> completed or processing -> failed        *)
(* (storage batch) or received -> processed (pub/sub batch); once a record *)
(* is completed, failed, processed or sent no further put or update is     *)
(* issued for it, by its own or by a later record of the batch.            *)
C27_StatusChanges ==
    inv.handler \in {"data_processor", "notification"}
    => \A id \in IdsOf("put") \cup IdsOf("update") :
        /\ \A k \in 1..(Len(WritesTo(id)) - 1) :
            <<WritesTo(id)[k].arg.status, WritesTo(id)[k+1].arg.status>> \in AllowedChanges
        /\ \A i \in 1..Len(inv.calls) :
            (/\ inv.calls[i].op \in {"put", "update"}
             /\ inv.calls[i].id = id /\ inv.calls[i].ok
             /\ inv.calls[i].arg.status \in TerminalStatuses)
            => \A j \in (i+1)..Len(inv.calls) :
                inv.calls[j].op \in {"put", "update"} => inv.calls[j].id # id

(* the first record of a batch is completed, the lookup of a later record  *)
(* faults: the later record is failed, the first is still completed        *)
C27_Witness ==
    /\ Invoked("data_processor") /\ inv.route = "batch"
    /\ Len(inv.event.Records) = MaxRecords
    /\ inv.env.records[1].fault = "none" /\ inv.env.records[MaxRecords].fault = "head"
    /\ inv.response.statusCode = 200
    /\ processed_data[inv.firstId].status = "completed"
    /\ Cardinality(WithStatus(processed_data, "failed")) >= 1
(* C28: every update targets an id for which a put of the same invocation  *)
(* succeeded before; when the put of a storage-batch record faults no      *)
(* update is issued for its id, so the table holds only records that were  *)
(* inserted.                                                               *)
C28_UpdateTargetsInsertedId ==
    inv.handler \in {"data_processor", "notification"}
    => /\ \A j \in PositionsOf("update") :
            \E i \in 1..(j-1) :
                /\ inv.calls[i].op = "put" /\ inv.calls[i].ok
                /\ inv.calls[i].id = inv.calls[j].id
       /\ \A i \in PositionsOf("put") :
            ~inv.calls[i].ok => inv.calls[i].id \notin IdsOf("update")
       /\ \A id \in DOMAIN TableOfInv : "created_at" \in DOMAIN TableOfInv[id]
(* the terminal statuses and the initial status of the flow of the         *)
(* invocation                                                              *)
TerminalOfFlow ==
    CASE Invoked("data_processor") -> {"completed", "failed"}
      [] Invoked("notification") /\ inv.route = "batch" -> {"processed"}
      [] OTHER -> {"sent", "failed"}

InitialOfFlow ==
    CASE Invoked("data_processor") /\ inv.route = "api" -> "queued"
      [] Invoked("data_processor") -> "processing"
      [] Invoked("notification") /\ inv.route = "batch" -> "received"
      [] OTHER -> "none"

(* an update of the invocation for the id faulted *)
UpdateFaulted(id) == \E j \in PositionsOf("update") : inv.calls[j].id = id /\ ~inv.calls[j].ok

(* C29 as stated: when an invocation returns, every record it inserted has *)
(* a terminal status of its flow, even when a state-store update faults.   *)
C29_AllRecordsTerminal ==
    inv.handler \in {"data_processor", "notification"}
    => \A id \in DOMAIN TableOfInv : TableOfInv[id].status \in TerminalOfFlow

(* C29 amended: when an invocation returns, every record it inserted has a *)
(* terminal status of its flow unless an update for that record faulted;   *)
(* such a record keeps the status it was inserted with.                    *)
C29_TerminalUnlessUpdateFaulted ==
    inv.handler \in {"data_processor", "notification"}
    => \A id \in DOMAIN TableOfInv :
        \/ TableOfInv[id].status \in TerminalOfFlow
        \/ /\ UpdateFaulted(id)
           /\ TableOfInv[id].status = InitialOfFlow

(* a pub/sub message whose update faulted: the batch answers 200 and the   *)
(* record is left 'received'                                               *)
C29_Witness ==
    /\ Invoked("notification") /\ inv.route = "batch"
    /\ inv.response.statusCode = 200
    /\ \E id \in DOMAIN notifications :
        /\ UpdateFaulted(id)
        /\ notifications[id].status = "received"
(* C30: the uptime GET /health reports, (300000 - remaining) / 1000        *)
(* seconds, is never negative, whatever non-negative remaining time the    *)
(* runtime reports, budgets above 300000 ms included.                      *)
C30_UptimeNonNegative ==
    (HealthRequest /\ inv.response.statusCode = 200)
    => inv.response.body.uptime_ms >= 0
====
